---- MODULE Spec2Model ----
(***************************************************************************)
(* Model of examples/render_layers.rs of bevy_vector_shapes: the startup   *)
(* system `setup`, the per-frame systems `draw_shapes` and `rotate_cube`,  *)
(* and the engine's clock.  f32 values are fixed-point integers with four  *)
(* decimal digits (One stands for 1.0); the Time resource counts           *)
(* hundredths of a second.  The variable probe holds the fill fraction on  *)
(* which the colour intensity of the fill arc is examined on its own.       *)
(***************************************************************************)
EXTENDS Integers, Sequences, FiniteSets

VARIABLES phase, cameras, time, ran, painter, frame, cube_rotation, probe

vars == <<phase, cameras, time, ran, painter, frame, cube_rotation, probe>>

\* Largest elapsed time explored, in hundredths of a second (just over 2*PI s).
MaxTime == 640
\* Largest time step between two frames, in hundredths of a second (0 = paused clock).
MaxDt == 3
\* Largest step between two fill fractions compared directly, in units of 0.0001.
MaxFillStep == 3

----------------------------------------------------------------------------
\* f32 arithmetic, fixed point

\* The fixed-point representation of 1.0.
One == 10 * 1000

\* The representation of 1.0 for the colour intensity factor, which is carried with
\* one more decimal digit: as in f32, fill fractions that differ by one unit have
\* different factors (the factor changes by at least 0.44 units per unit of fill).
Fine == 10 * One

\* std::f32::consts::PI
PI == 31416

Abs(x) == IF x >= 0 THEN x ELSE -x

\* f32 product a * b, rounded toward zero (symmetric in the sign, like f32).
Mul(a, b) == LET p == a * b IN IF p >= 0 THEN p \div One ELSE -((-p) \div One)

\* f32 quotient a / b for b > 0, rounded toward zero.
Div(a, b) == LET p == a * One IN IF p >= 0 THEN p \div b ELSE -((-p) \div b)

\* a / b for a >= 0 and b > 0, rounded to nearest.
RoundDiv(a, b) == (a + b \div 2) \div b

\* Polynomial kernels on [0, PI/4], as libm evaluates sin after range reduction;
\* the terms are carried with one more decimal digit than the result.
SinKernel(a) ==
    LET x2 == RoundDiv(a * a, 1000)
        t3 == RoundDiv(a * x2, 60000)
        t5 == RoundDiv(t3 * x2, 2000000)
    IN  RoundDiv(10 * a - t3 + t5, 10)

CosKernel(a) ==
    LET x2 == RoundDiv(a * a, 1000)
        t2 == RoundDiv(x2, 2)
        t4 == RoundDiv(t2 * x2, 1200000)
        t6 == RoundDiv(t4 * x2, 3000000)
    IN  RoundDiv(10 * One - t2 + t4 - t6, 10)

\* f32::sin.  Range reduction in two parts, as libm does it: the whole periods are
\* taken off with 2 * PI as represented (6.2832), then the part of 2 * pi the
\* representation overstates (6.2832 - 6.28318531 = 0.000014693 per period) is
\* added back, so that the phase does not drift for large arguments.  The rest is
\* reduced to the nearest multiple of PI/2 and handed to the kernel of its quadrant.
Sin(x) ==
    LET HalfPi  == PI \div 2
        periods == x \div (2 * PI)
        m  == ((x % (2 * PI)) + ((periods * 14693 + 50000) \div 100000)) % (2 * PI)
        k  == (m + HalfPi \div 2) \div HalfPi
        r  == m - k * HalfPi
        sg == IF r >= 0 THEN 1 ELSE -1
        q  == k % 4
    IN  CASE q = 0 -> sg * SinKernel(Abs(r))
          [] q = 1 -> CosKernel(Abs(r))
          [] q = 2 -> -sg * SinKernel(Abs(r))
          [] q = 3 -> -CosKernel(Abs(r))

Cos(x) == Sin(x + PI \div 2)

\* Vec3 operations.
VecZero == <<0, 0, 0>>
VecAdd(u, v) == <<u[1] + v[1], u[2] + v[2], u[3] + v[3]>>
VecNeg(v) == <<-v[1], -v[2], -v[3]>>
VecScale(v, s) == <<Mul(v[1], s), Mul(v[2], s), Mul(v[3], s)>>

\* Quat::from_rotation_z(angle) * Vec3::Y
RotateYAboutZ(angle) == <<-Sin(angle), Cos(angle), 0>>

\* Colours are <<red, green, blue, alpha>>.
CRIMSON == <<8600, 800, 2400, One>>
DARK_GRAY == <<2500, 2500, 2500, One>>
WHITE == <<One, One, One, One>>

\* Color * f32, the factor in units of 1 / Fine: scales the colour channels, keeps alpha.
ColorMul(c, s) == <<(c[1] * s) \div Fine, (c[2] * s) \div Fine, (c[3] * s) \div Fine, c[4]>>

\* RenderLayers::layer(n); an Option is a sequence of length 0 or 1.
Layer(n) == {n}
None == <<>>
Some(x) == <<x>>

\* The layers an entity without a RenderLayers component belongs to.
DefaultLayers == Layer(0)
EffectiveLayers(opt) == IF opt = None THEN DefaultLayers ELSE opt[1]

----------------------------------------------------------------------------
\* The shape painter

\* The painter's configuration after a reset.
DefaultConfig ==
    [ render_layers |-> None,
      hollow        |-> FALSE,
      scale         |-> <<One, One, One>>,
      cap           |-> "None",
      thickness     |-> One,
      color         |-> WHITE,
      translation   |-> VecZero ]

Call(op, args, cfg) == [op |-> op, args |-> args, config |-> cfg]

\* A painter in a system: its configuration and the calls it has received this frame.
\* painter.clear()
Clear(st) ==
    [cfg |-> DefaultConfig,
     calls |-> Append(st.calls, Call("clear", <<>>, DefaultConfig))]

\* painter.translate(v)
Translate(st, v) ==
    LET c == [st.cfg EXCEPT !.translation = VecAdd(@, v)]
    IN  [cfg |-> c, calls |-> Append(st.calls, Call("translate", <<v>>, c))]

\* painter.arc(radius, start_angle, end_angle)
Arc(st, radius, start_angle, end_angle) ==
    [cfg |-> st.cfg,
     calls |-> Append(st.calls, Call("arc", <<radius, start_angle, end_angle>>, st.cfg))]

\* Assignment to a field of the painter.
Set(st, c) == [cfg |-> c, calls |-> st.calls]

----------------------------------------------------------------------------
\* draw_shapes

\* time.elapsed_seconds(): the clock's hundredths of a second as f32 seconds.
ElapsedSeconds(ticks) == ticks * 100

\* Faulty variant: the sum is not halved.
MeterFillNoHalve(t) == Sin(t) + One
\* let meter_fill = (time.elapsed_seconds().sin() + 1.0) / 2.0;
MeterFill(t) == Div(Sin(t) + One, 2 * One)

\* let meter_size = PI * 1.5;
MeterSize == Mul(PI, 15000)

\* let start_angle = -meter_size / 2.0;
StartAngle == Div(-MeterSize, 2 * One)

\* Faulty variants: the sweep is subtracted; the start angle is left out.
EndAngleNegated(meter_fill) == Div(-MeterSize, 2 * One) - Mul(meter_fill, MeterSize)
EndAngleNoStart(meter_fill) == Mul(meter_fill, MeterSize)
\* let end_angle = -meter_size / 2.0 + meter_fill * meter_size;
EndAngle(meter_fill) == Div(-MeterSize, 2 * One) + Mul(meter_fill, MeterSize)

\* Faulty variant: the denominator is used as the factor.
ColorScaleInverted(meter_fill) == 10 * (One \div 2 + meter_fill)
\* 1.0 / (0.5 + meter_fill), in units of 1 / Fine
ColorScale(meter_fill) == (One * Fine) \div (One \div 2 + meter_fill)

\* Quat::from_rotation_z(angle) * Vec3::Y * 1.1
Offset(angle) == VecScale(RotateYAboutZ(angle), 11000)

\* Faulty variants: clear() is not called; the render layer is not set.
PrologueNoClear(st) ==
    Set(st, [st.cfg EXCEPT !.render_layers = Some(Layer(1)),
                           !.hollow = TRUE,
                           !.scale = VecScale(<<One, One, One>>, 3 * One)])
PrologueNoLayer(st) ==
    LET s0 == Clear(st)
    IN  Set(s0, [s0.cfg EXCEPT !.hollow = TRUE,
                               !.scale = VecScale(<<One, One, One>>, 3 * One)])
\* painter.clear(); render_layers = Some(layer 1); hollow = true; scale = ONE * 3.0
Prologue(st) ==
    LET s0 == Clear(st)
    IN  Set(s0, [s0.cfg EXCEPT !.render_layers = Some(Layer(1)),
                               !.hollow = TRUE,
                               !.scale = VecScale(<<One, One, One>>, 3 * One)])

\* Faulty variant: an empty fill arc is not drawn.
FillArcSkipEmpty(st, meter_fill) ==
    LET s0 == Set(st, [st.cfg EXCEPT !.cap = "Round",
                                     !.thickness = 4000,
                                     !.color = ColorMul(CRIMSON, ColorScale(meter_fill))])
    IN  IF EndAngle(meter_fill) = StartAngle
        THEN s0
        ELSE Arc(s0, 13000, StartAngle, EndAngle(meter_fill))
\* cap = Round; thickness = 0.4; color = CRIMSON * (1 / (0.5 + fill)); arc(1.3, start, end)
FillArc(st, meter_fill) ==
    LET s0 == Set(st, [st.cfg EXCEPT !.cap = "Round",
                                     !.thickness = 4000,
                                     !.color = ColorMul(CRIMSON, ColorScale(meter_fill))])
    IN  Arc(s0, 13000, StartAngle, EndAngle(meter_fill))

\* Faulty variant: the cap is not set back to None.
BoundaryArcsKeepCap(st) ==
    LET s0 == Set(st, [st.cfg EXCEPT !.thickness = 2000,
                                     !.color = DARK_GRAY])
        s1 == Arc(s0, 16000, StartAngle, -StartAngle)
    IN  Arc(s1, 8000, StartAngle, -StartAngle)
\* cap = None; thickness = 0.2; color = DARK_GRAY; arc(1.6, ..); arc(0.8, ..)
BoundaryArcs(st) ==
    LET s0 == Set(st, [st.cfg EXCEPT !.cap = "None",
                                     !.thickness = 2000,
                                     !.color = DARK_GRAY])
        s1 == Arc(s0, 16000, StartAngle, -StartAngle)
    IN  Arc(s1, 8000, StartAngle, -StartAngle)

\* Faulty variant: the translation is not undone.
EndCap1NoUndo(st) ==
    LET offset == Offset(StartAngle)
        s0 == Translate(st, offset)
    IN  Arc(s0, 5000, StartAngle + Mul(PI, 15000), StartAngle + Mul(25000, PI))
\* translate(offset); arc(0.5, start + 1.5 PI, start + 2.5 PI); translate(-offset)
EndCap1(st) ==
    LET offset == Offset(StartAngle)
        s0 == Translate(st, offset)
        s1 == Arc(s0, 5000, StartAngle + Mul(PI, 15000), StartAngle + Mul(25000, PI))
    IN  Translate(s1, VecNeg(offset))

\* Faulty variant: the second end cap is drawn without its translation.
EndCap2NoTranslate(st) ==
    Arc(st, 5000, StartAngle + PI, StartAngle + Mul(20000, PI))
\* translate(Quat::from_rotation_z(-start) * Y * 1.1); arc(0.5, start + PI, start + 2 PI)
EndCap2(st) ==
    LET s0 == Translate(st, Offset(-StartAngle))
    IN  Arc(s0, 5000, StartAngle + PI, StartAngle + Mul(20000, PI))

\* The body of draw_shapes run on the painter `cfg` at elapsed seconds t.
DrawBody(cfg, t) ==
    LET meter_fill == MeterFill(t)
        entry == [cfg |-> cfg, calls |-> <<>>]
    IN  EndCap2(EndCap1(BoundaryArcs(FillArc(Prologue(entry), meter_fill))))

----------------------------------------------------------------------------
\* The app

Systems == {"rotate_cube", "draw_shapes"}

NoFrame ==
    [ drawn      |-> FALSE,
      t          |-> 0,
      prev_t     |-> -1,
      meter_fill |-> 0,
      entry      |-> DefaultConfig,
      calls      |-> <<>> ]

\* App::new() with the plugins added, before the startup schedule has run.
AppInit ==
    /\ phase = "startup"
    /\ cameras = {}
    /\ time = 0
    /\ ran = {}
    /\ painter = DefaultConfig
    /\ frame = NoFrame
    /\ cube_rotation = None

Init == AppInit /\ probe = None

\* fn setup: spawns the first pass camera (on layer 1, rendering to the image), the
\* main pass cube and the main pass camera (no RenderLayers component).
Setup ==
    /\ phase = "startup"
    /\ phase' = "running"
    /\ cameras' = { [ name   |-> "first_pass",
                      order  |-> -1,
                      target |-> "image",
                      layers |-> Some(Layer(1)) ],
                    [ name   |-> "main_pass",
                      order  |-> 0,
                      target |-> "window",
                      layers |-> None ] }
    /\ cube_rotation' = Some(<<Div(-PI, 5 * One), 0>>)
    /\ UNCHANGED <<time, ran, painter, frame, probe>>

\* The engine's time system: once every system of the frame has run, the clock
\* advances by the frame's delta (zero while the clock is paused).
Tick ==
    /\ phase = "running"
    /\ ran = Systems
    /\ \E dt \in 0..MaxDt :
          /\ time + dt <= MaxTime
          /\ time' = time + dt
    /\ ran' = {}
    /\ UNCHANGED <<phase, cameras, painter, frame, cube_rotation, probe>>

\* fn rotate_cube
RotateCube ==
    /\ phase = "running"
    /\ "rotate_cube" \notin ran
    /\ ran' = ran \cup {"rotate_cube"}
    /\ cube_rotation' =
          IF cube_rotation = None
          THEN None
          ELSE Some(<<ElapsedSeconds(time), Div(ElapsedSeconds(time), 2 * One)>>)
    /\ UNCHANGED <<phase, cameras, time, painter, frame, probe>>

\* fn draw_shapes
DrawShapes ==
    /\ phase = "running"
    /\ "draw_shapes" \notin ran
    /\ ran' = ran \cup {"draw_shapes"}
    /\ LET t  == ElapsedSeconds(time)
           st == DrawBody(painter, t)
       IN  /\ painter' = st.cfg
           /\ frame' = [ drawn      |-> TRUE,
                         t          |-> time,
                         prev_t     |-> IF frame.drawn THEN frame.t ELSE -1,
                         meter_fill |-> MeterFill(t),
                         entry      |-> painter,
                         calls      |-> st.calls ]
    /\ UNCHANGED <<phase, cameras, time, cube_rotation, probe>>

Next == Setup \/ Tick \/ RotateCube \/ DrawShapes

Spec == Init /\ [][Next]_vars

----------------------------------------------------------------------------
\* The colour intensity of the fill arc as a function of the fill fraction

\* The fill arc's style for the fill fraction g: the factor of l.139 and the colour
\* the painter holds when the fill arc is drawn.
Probe(g) ==
    [ fill   |-> g,
      factor |-> ColorScale(g),
      color  |-> FillArc([cfg |-> DefaultConfig, calls |-> <<>>], g).cfg.color ]

\* Any fill fraction in [0, 1].
InitFactor == AppInit /\ probe \in {Probe(g) : g \in 0..One}

\* The same computation for a larger fill fraction.
RaiseFill ==
    /\ \E d \in 1..MaxFillStep :
          /\ probe.fill + d <= One
          /\ probe' = Probe(probe.fill + d)
    /\ UNCHANGED <<phase, cameras, time, ran, painter, frame, cube_rotation>>

SpecFactor == InitFactor /\ [][RaiseFill]_vars

----------------------------------------------------------------------------
\* Properties of a frame

\* The arc draw calls of the last frame, in order.
Arcs == SelectSeq(frame.calls, LAMBDA c : c.op = "arc")

\* The names of the painter calls of the last frame, in order.
Ops == [i \in 1..Len(frame.calls) |-> frame.calls[i].op]

TranslateCalls == {i \in 1..Len(frame.calls) : frame.calls[i].op = "translate"}

\* C1: whatever the elapsed time, a frame issues exactly five arc calls, in the
\* order fill (radius 1.3), outer boundary (1.6), inner boundary (0.8), first
\* end cap (0.5), second end cap (0.5); at t = 0 the fill arc spans 0.75 PI.
C1_FiveArcsInOrder ==
    frame.drawn =>
        /\ Len(Arcs) = 5
        /\ [i \in 1..5 |-> Arcs[i].args[1]] = <<13000, 16000, 8000, 5000, 5000>>
        /\ frame.t = 0 => Arcs[1].args[3] - Arcs[1].args[2] = 23562

\* A frame drawn with an empty fill arc still holds the five arcs.
C1_Witness ==
    /\ frame.drawn
    /\ frame.meter_fill = 0
    /\ Len(Arcs) = 5
    /\ Arcs[1].args[2] = Arcs[1].args[3]

\* C2 as stated: a frame holds exactly two translate calls, translate(offset)
\* right before the first end-cap arc and translate(-offset) right after it, and no
\* other translate call.
C2_ExactlyTwoTranslates ==
    frame.drawn =>
        /\ Cardinality(TranslateCalls) = 2
        /\ \E i \in TranslateCalls :
              /\ i + 2 \in TranslateCalls
              /\ frame.calls[i + 1].op = "arc"
              /\ frame.calls[i + 2].args[1] = VecNeg(frame.calls[i].args[1])

\* C2 amended: a frame holds exactly three translate calls: translate(offset) right
\* before the first end-cap arc, translate(-offset) right after it, and a third
\* translate, by the second offset, right before the second end-cap arc, which is
\* not undone; the translate/untranslate pair brackets the first end-cap arc only.
C2_ThreeTranslates ==
    frame.drawn =>
        /\ Ops = << "clear", "arc", "arc", "arc",
                    "translate", "arc", "translate", "translate", "arc" >>
        /\ frame.calls[5].args[1] = <<7778, -7778, 0>>
        /\ frame.calls[7].args[1] = VecNeg(frame.calls[5].args[1])
        /\ frame.calls[7].config.translation = VecZero
        /\ frame.calls[8].args[1] = <<-7778, -7778, 0>>
        /\ frame.calls[9].args[1] = 5000

\* A frame has been drawn and left the second end cap's translation applied.
C2_Witness ==
    /\ frame.drawn
    /\ Cardinality(TranslateCalls) = 3
    /\ painter.translation = <<-7778, -7778, 0>>

\* C3: the fill fraction (sin(t) + 1) / 2 lies in [0, 1] in every frame; it is 0.5
\* at t = 0, 1 where sin(t) = 1 and 0 where sin(t) = -1.
C3_FillInUnitInterval ==
    frame.drawn =>
        /\ frame.meter_fill >= 0
        /\ frame.meter_fill <= One
        /\ frame.t = 0 => frame.meter_fill = One \div 2
        /\ Sin(ElapsedSeconds(frame.t)) = One => frame.meter_fill = One
        /\ Sin(ElapsedSeconds(frame.t)) = -One => frame.meter_fill = 0

\* A frame at the bottom of the sine wave (after its top): the fill fraction is 0.
C3_Witness ==
    /\ frame.drawn
    /\ frame.t > 314
    /\ Sin(ElapsedSeconds(frame.t)) = -One
    /\ frame.meter_fill = 0

\* C4: each of the five arcs has start angle <= end angle: the fill arc
\* [-0.75 PI, -0.75 PI + fill * 1.5 PI], the boundary arcs [start, -start], the first
\* end cap [start + 1.5 PI, start + 2.5 PI], the second [start + PI, start + 2 PI].
C4_StartBeforeEnd ==
    frame.drawn =>
        /\ \A i \in 1..Len(Arcs) : Arcs[i].args[2] <= Arcs[i].args[3]
        /\ Arcs[1].args[2] = -23562
        /\ Arcs[1].args[3] = -23562 + Mul(frame.meter_fill, 47124)
        /\ \A i \in {2, 3} : Arcs[i].args[2] = -23562 /\ Arcs[i].args[3] = 23562
        /\ Arcs[4].args[2] = -23562 + 47124 /\ Arcs[4].args[3] = -23562 + 78540
        /\ Arcs[5].args[2] = -23562 + 31416 /\ Arcs[5].args[3] = -23562 + 62832

\* A frame whose fill arc is empty, the case where start = end.
C4_Witness ==
    /\ frame.drawn
    /\ Len(Arcs) = 5
    /\ Arcs[1].args[2] = Arcs[1].args[3]
    /\ Arcs[4].args[2] < Arcs[4].args[3]

\* C5: the fill arc starts at -0.75 PI and spans fill * 1.5 PI, so it lies inside
\* the boundary arcs' range [-0.75 PI, 0.75 PI]: empty at fill 0, spanning 0.75 PI at
\* t = 0, ending exactly at 0.75 PI at fill 1.
C5_FillSpan ==
    frame.drawn =>
        LET fill == Arcs[1] IN
        /\ fill.args[2] = -23562
        /\ fill.args[3] - fill.args[2] = Mul(frame.meter_fill, 47124)
        /\ Arcs[2].args[2] <= fill.args[2]
        /\ fill.args[3] <= Arcs[2].args[3]
        /\ Arcs[3].args[2] <= fill.args[2]
        /\ fill.args[3] <= Arcs[3].args[3]
        /\ frame.meter_fill = 0 => fill.args[3] = fill.args[2]
        /\ frame.t = 0 => fill.args[3] - fill.args[2] = 23562
        /\ frame.meter_fill = One => fill.args[3] = 23562

\* A frame with a full gauge: the fill arc ends where the boundary arcs end.
C5_Witness ==
    /\ frame.drawn
    /\ frame.meter_fill = One
    /\ Arcs[1].args[3] = Arcs[2].args[3]

\* C6: every arc of every frame carries the render layer 1, the layer of the
\* camera that renders to the texture, and never no layer or a layer of the main
\* pass camera, which has no layer component and so uses the default layer.
C6_ArcsOnFirstPassLayer ==
    frame.drawn =>
        \A i \in 1..Len(Arcs) :
            LET tag == Arcs[i].config.render_layers IN
            /\ tag = Some(Layer(1))
            /\ \E cam \in cameras : cam.target = "image" /\ cam.layers = tag
            /\ \A cam \in cameras :
                  cam.target = "window" =>
                      /\ cam.layers = None
                      /\ EffectiveLayers(cam.layers) \cap EffectiveLayers(tag) = {}

\* Both cameras exist and a frame of five arcs has been drawn.
C6_Witness ==
    /\ frame.drawn
    /\ Cardinality(cameras) = 2
    /\ Len(Arcs) = 5
    /\ \A i \in 1..5 : EffectiveLayers(Arcs[i].config.render_layers) = {1}

\* The intensity factor lies in (0.5, 2.0], is 2.0 at fill 0, has a positive
\* denominator, and is the factor applied to CRIMSON for the fill arc.
IntensityBounded ==
    probe # None =>
        /\ probe.fill \in 0..One
        /\ One \div 2 + probe.fill > 0
        /\ probe.factor > Fine \div 2
        /\ probe.factor <= 2 * Fine
        /\ probe.fill = 0 => probe.factor = 2 * Fine
        /\ probe.color = ColorMul(CRIMSON, probe.factor)

C8_DeterministicInTime ==
    [][ (frame.drawn /\ frame'.drawn /\ frame'.t = frame.t)
          => frame'.calls = frame.calls ]_vars

\* A frame drawn at the same elapsed time as the frame before it, entered with the
\* style and translation that frame left behind.
C8_Witness ==
    /\ frame.drawn
    /\ frame.prev_t = frame.t
    /\ frame.entry # DefaultConfig
    /\ frame.entry.translation # VecZero

\* C9: in every frame the fill arc and both boundary arcs are drawn with no
\* translation, the first end cap with exactly the first offset and the second end
\* cap with exactly the second offset: the translation left applied by the frame
\* before is cleared on entry and never accumulates.
C9_NoTranslationLeak ==
    frame.drawn =>
        /\ frame.calls[1].op = "clear"
        /\ \A i \in 1..3 : Arcs[i].config.translation = VecZero
        /\ Arcs[4].config.translation = <<7778, -7778, 0>>
        /\ Arcs[5].config.translation = <<-7778, -7778, 0>>
        /\ painter.translation = <<-7778, -7778, 0>>

\* A frame entered with the translation of the frame before still applied.
C9_Witness ==
    /\ frame.drawn
    /\ frame.prev_t >= 0
    /\ frame.entry.translation = <<-7778, -7778, 0>>
    /\ Arcs[1].config.translation = VecZero

\* C10: in every frame the fill arc alone has round caps and thickness 0.4; the
\* boundary arcs and both end caps have no caps, thickness 0.2 and dark gray; all
\* five arcs are hollow with scale 3.
C10_StylePersists ==
    frame.drawn =>
        /\ Arcs[1].config.cap = "Round"
        /\ Arcs[1].config.thickness = 4000
        /\ \A i \in 2..5 :
              /\ Arcs[i].config.cap = "None"
              /\ Arcs[i].config.thickness = 2000
              /\ Arcs[i].config.color = DARK_GRAY
        /\ \A i \in 1..5 :
              /\ Arcs[i].config.hollow
              /\ Arcs[i].config.scale = <<30000, 30000, 30000>>

\* A frame entered with the boundary style of the frame before: its fill arc is
\* round and thick again, its end caps flat and thin.
C10_Witness ==
    /\ frame.drawn
    /\ frame.entry.cap = "None"
    /\ frame.entry.thickness = 2000
    /\ frame.entry.color = DARK_GRAY
    /\ Arcs[1].config.cap = "Round"
    /\ Arcs[5].config.cap = "None"

====
